---- MODULE Spec2Model ----
(***************************************************************************)
(* Model of predict.py: Predictor.predict, a generator that resolves an    *)
(* optional LoRA reference, attaches it to the shared FluxPipeline, draws  *)
(* num_outputs images lazily, filters them through the safety checker and  *)
(* yields one output path per accepted image.                              *)
(*                                                                         *)
(* Python strings are modelled as tuples of one-character strings so that  *)
(* the regular expressions of the adapter resolver are evaluated on the    *)
(* text of the reference, character by character.                          *)
(***************************************************************************)
EXTENDS Integers, Sequences, FiniteSets, TLC

\* Python's None, where the other values of the variable are strings of the model
None == "None"

\* None where the other values are texts (tuples of characters)
NoText == <<"None">>

\* None where the other values are pairs
NoPair == <<>>

\* seed is None
NoSeed == -1

(***************************************************************************)
(* Strings                                                                 *)
(***************************************************************************)
S_http == <<"h","t","t","p">>
S_huggingface == <<"h","u","g","g","i","n","g","f","a","c","e">>
S_co == <<"c","o">>
S_safetensors == <<"s","a","f","e","t","e","n","s","o","r","s">>
S_tar == <<"t","a","r">>
S_replicate == <<"r","e","p","l","i","c","a","t","e">>
S_delivery == <<"d","e","l","i","v","e","r","y">>
S_trained_model == <<"t","r","a","i","n","e","d","_","m","o","d","e","l">>
S_dot_tar == <<".","t","a","r">>
S_dot_safetensors == <<".","s","a","f","e","t","e","n","s","o","r","s">>
S_replicate_delivery == <<"r","e","p","l","i","c","a","t","e",".","d","e","l","i","v","e","r","y">>

\* str.endswith
EndsWith(s, suf) ==
    /\ Len(suf) <= Len(s)
    /\ SubSeq(s, Len(s) - Len(suf) + 1, Len(s)) = suf

\* the `in` operator on two strings
Contains(s, sub) ==
    \E p \in 1..(Len(s) - Len(sub) + 1) : SubSeq(s, p, p + Len(sub) - 1) = sub

\* s.split('/')[-1]: the text after the last "/", the whole of s without one
LastSegment(s) ==
    LET cuts == {p \in 1..Len(s) : s[p] = "/"}
        last == IF cuts = {} THEN 0 ELSE CHOOSE p \in cuts : \A q \in cuts : q <= p
    IN  SubSeq(s, last + 1, Len(s))

(***************************************************************************)
(* Regular expressions (the re module, for the constructs predict uses).   *)
(* A match is computed by position sets: ReStep(re, s, P) is the set of    *)
(* positions where a match of re can end when it starts at a position of   *)
(* P; position p is the index of the next character to read.               *)
(***************************************************************************)
ReLit(c) == [t |-> "lit", c |-> c]
ReAny == [t |-> "any"]
ReClass(S) == [t |-> "cls", S |-> S]
RePlus(r) == [t |-> "plus", r |-> r]
ReStar(r) == [t |-> "star", r |-> r]
ReOpt(r) == [t |-> "opt", r |-> r]
ReSeq(rs) == [t |-> "seq", rs |-> rs]
ReAlt(rs) == [t |-> "alt", rs |-> rs]
ReEnd == [t |-> "end"]
ReText(w) == [t |-> "text", w |-> w]

RECURSIVE ReStep(_, _, _)
RECURSIVE ReSeqStep(_, _, _, _)
RECURSIVE ReClosure(_, _, _)

ReStep(re, s, P) ==
    CASE re.t = "lit" -> {p + 1 : p \in {q \in P : q <= Len(s) /\ s[q] = re.c}}
      [] re.t = "text" -> {p + Len(re.w) : p \in {q \in P : q + Len(re.w) - 1 <= Len(s)
                                   /\ SubSeq(s, q, q + Len(re.w) - 1) = re.w}}
      \* "." matches any character except a newline
      [] re.t = "any" -> {p + 1 : p \in {q \in P : q <= Len(s) /\ s[q] # "\n"}}
      [] re.t = "cls" -> {p + 1 : p \in {q \in P : q <= Len(s) /\ s[q] \in re.S}}
      [] re.t = "plus" -> ReClosure(re.r, s, ReStep(re.r, s, P))
      [] re.t = "star" -> ReClosure(re.r, s, P)
      [] re.t = "opt" -> P \cup ReStep(re.r, s, P)
      [] re.t = "seq" -> ReSeqStep(re.rs, 1, s, P)
      [] re.t = "alt" -> UNION {ReStep(re.rs[k], s, P) : k \in DOMAIN re.rs}
      \* "$" matches at the end of the string and before a final newline
      [] re.t = "end" -> {p \in P : \/ p = Len(s) + 1
                                    \/ p = Len(s) /\ s[p] = "\n"}

ReSeqStep(rs, k, s, P) ==
    IF k > Len(rs) THEN P ELSE ReSeqStep(rs, k + 1, s, ReStep(rs[k], s, P))

ReClosure(r, s, P) ==
    LET Q == P \cup ReStep(r, s, P)
    IN  IF Q = P THEN P ELSE ReClosure(r, s, Q)

\* re.match(re, s) is not None; "^" is implied by matching from position 1
ReMatch(re, s) == ReStep(re, s, {1}) # {}

\* [a-zA-Z0-9_-]
WordChars ==
    {"a","b","c","d","e","f","g","h","i","j","k","l","m","n","o","p","q","r",
     "s","t","u","v","w","x","y","z","A","B","C","D","E","F","G","H","I","J",
     "K","L","M","N","O","P","Q","R","S","T","U","V","W","X","Y","Z","0","1",
     "2","3","4","5","6","7","8","9","_","-"}

\* [a-zA-Z0-9_-]+/[a-zA-Z0-9_-]+
ReOwnerName == ReSeq(<<RePlus(ReClass(WordChars)), ReLit("/"), RePlus(ReClass(WordChars))>>)

\* https?://
ReScheme == ReSeq(<<ReText(S_http), ReOpt(ReLit("s")), ReLit(":"), ReLit("/"), ReLit("/")>>)

\* ^[a-zA-Z0-9_-]+/[a-zA-Z0-9_-]+$
ReHfPath == ReSeq(<<ReOwnerName, ReEnd>>)

\* ^https?://huggingface.co   (the dot is unescaped in the source)
ReHfUrl == ReSeq(<<ReScheme, ReText(S_huggingface), ReAny, ReText(S_co)>>)

\* ^https?://huggingface.co/   the part of the slug pattern before its group
ReHfUrlSlash == ReSeq(<<ReHfUrl, ReLit("/")>>)

\* ^https?://.*\.(safetensors|tar)$
ReWeightUrl ==
    ReSeq(<<ReScheme, ReStar(ReAny), ReLit("."),
            ReAlt(<<ReText(S_safetensors), ReText(S_tar)>>), ReEnd>>)

\* ^https?://replicate.delivery/[a-zA-Z0-9_-]+/[a-zA-Z0-9_-]+/trained_model.tar
ReDeliveryUrl ==
    ReSeq(<<ReScheme, ReText(S_replicate), ReAny, ReText(S_delivery), ReLit("/"),
            ReOwnerName, ReLit("/"), ReText(S_trained_model), ReAny, ReText(S_tar)>>)

SetMax(S) == CHOOSE p \in S : \A q \in S : q <= p

\* re.search(r"^https?://huggingface.co/([...]+/[...]+)", s): group(1) of the
\* match, None without a match.  Both repetitions are greedy and nothing
\* follows the group, so the group ends at the furthest end position.
HfSlugOf(s) ==
    LET from == ReStep(ReHfUrlSlash, s, {1})
        to == ReStep(ReOwnerName, s, from)
    IN  IF to = {} THEN NoText ELSE SubSeq(s, SetMax(from), SetMax(to) - 1)

(***************************************************************************)
(* Inputs of predict                                                       *)
(***************************************************************************)
RefSlug == <<"a","b","/","c","_","d">>
RefHub == <<"h","t","t","p","s",":","/","/","h","u","g","g","i","n","g","f","a","c","e",".","c","o","/","a","b","/","c","d","/","x",".","s","a","f","e","t","e","n","s","o","r","s">>
RefHubHttp == <<"h","t","t","p",":","/","/","h","u","g","g","i","n","g","f","a","c","e",".","c","o","/","a","b","/","c","d">>
RefHubBare == <<"h","t","t","p","s",":","/","/","h","u","g","g","i","n","g","f","a","c","e",".","c","o">>
RefFile == <<"h","t","t","p","s",":","/","/","e",".","i","o","/","w",".","s","a","f","e","t","e","n","s","o","r","s">>
RefTar == <<"h","t","t","p","s",":","/","/","e",".","i","o","/","w",".","t","a","r">>
RefDelivery == <<"h","t","t","p","s",":","/","/","r","e","p","l","i","c","a","t","e",".","d","e","l","i","v","e","r","y","/","a","b","/","c","d","/","t","r","a","i","n","e","d","_","m","o","d","e","l",".","t","a","r">>
RefDeliveryGz == <<"h","t","t","p","s",":","/","/","r","e","p","l","i","c","a","t","e",".","d","e","l","i","v","e","r","y","/","a","b","/","c","d","/","t","r","a","i","n","e","d","_","m","o","d","e","l",".","t","a","r",".","g","z">>
RefFtp == <<"f","t","p",":","/","/","e",".","i","o","/","w",".","t","a","r">>
RefDeep == <<"a","b","/","c","d","/","e","f">>
RefBin == <<"h","t","t","p","s",":","/","/","e",".","i","o","/","w",".","b","i","n">>

\* the references a request may carry
LoraRefs ==
    {RefSlug, RefHub, RefHubHttp, RefHubBare, RefFile, RefTar, RefDelivery,
     RefDeliveryGz, RefFtp, RefDeep, RefBin}

\* choices of aspect_ratio, and one string outside them
AspectRatioChoices == {"1:1", "16:9", "21:9", "2:3", "3:2", "4:5", "5:4", "9:16", "9:21"}
AspectRatioInputs == AspectRatioChoices \cup {"4:3"}

\* choices of output_format
OutputFormats == {"webp", "jpg", "png"}

\* num_outputs: ge=1, le=4
MinOutputs == 1
MaxOutputs == 4

\* explicit seeds, and the values os.urandom(2) is taken to return
Seeds == {1, 2}
UrandomSeeds == {2, 3}

\* lora_scale, in tenths
LoraScales == {5, 8}

\* the defaults of the Input declarations
DefaultRequest ==
    [aspect_ratio |-> "1:1", num_outputs |-> 1, seed |-> NoSeed,
     output_format |-> "webp", hf_lora |-> NoText, lora_scale |-> 8,
     disable_safety_checker |-> FALSE]

\* requests that vary the aspect ratio, with and without an adapter
RatioRequests ==
    {[DefaultRequest EXCEPT !.aspect_ratio = ar, !.hf_lora = lora] :
        ar \in AspectRatioInputs, lora \in {NoText, RefSlug}}

\* requests that vary the adapter reference, its scale and the seed
LoraRequests ==
    {[DefaultRequest EXCEPT !.hf_lora = lora, !.lora_scale = scale, !.seed = sd,
                            !.num_outputs = n] :
        lora \in LoraRefs \cup {NoText}, scale \in LoraScales, sd \in Seeds,
        n \in MinOutputs..2}

\* requests that vary the output count, the format, the seed and the filter
LoopRequests ==
    {[DefaultRequest EXCEPT !.num_outputs = n, !.output_format = fmt, !.seed = sd,
                            !.disable_safety_checker = dsc] :
        n \in MinOutputs..MaxOutputs, fmt \in OutputFormats,
        sd \in Seeds \cup {NoSeed}, dsc \in BOOLEAN}

Requests == RatioRequests \cup LoraRequests \cup LoopRequests

\* number of predict requests served on the one Predictor
MaxRequests == 2

(***************************************************************************)
(* State                                                                   *)
(***************************************************************************)
VARIABLES
    adapters,            \* adapters attached to self.txt2img_pipe
    served,              \* requests started so far
    pc,                  \* position of the running request
    aspect_ratio, num_outputs, output_format, hf_lora, lora_scale,
    disable_safety_checker,
    seed_arg,            \* the seed argument as passed
    seed,                \* the seed after lines 131-132
    flux_kwargs,
    generator,
    image,               \* the image the loop body holds
    images,              \* images the pipeline returned, in order
    nsfw,                \* per image of images: the safety decision taken
    safe_images_count,
    saved,               \* image.save calls, in order
    yielded,             \* paths handed to the caller, in order
    downloads,           \* download_weights calls, in order
    entry_adapters,      \* adapters attached when the request began
    outcome              \* how the request ended

reqvars == <<aspect_ratio, num_outputs, output_format, hf_lora, lora_scale,
             disable_safety_checker, seed_arg, seed>>
loopvars == <<generator, image, images, nsfw, safe_images_count, saved, yielded>>
vars == <<adapters, served, pc, reqvars, flux_kwargs, loopvars, downloads,
          entry_adapters, outcome>>

NoKwargs == [width |-> 0, height |-> 0, joint_attention_kwargs |-> <<>>]

(***************************************************************************)
(* Pure parts of predict                                                   *)
(***************************************************************************)
aspect_ratios ==
    [ar \in AspectRatioChoices |->
        CASE ar = "1:1" -> <<1024, 1024>>
          [] ar = "16:9" -> <<1344, 768>>
          [] ar = "21:9" -> <<1536, 640>>
          [] ar = "3:2" -> <<1216, 832>>
          [] ar = "2:3" -> <<832, 1216>>
          [] ar = "4:5" -> <<896, 1088>>
          [] ar = "5:4" -> <<1088, 896>>
          [] ar = "9:16" -> <<768, 1344>>
          [] ar = "9:21" -> <<640, 1536>>]

\* aspect_ratios.get(aspect_ratio, (1024, 1024)) in place of .get(aspect_ratio)
aspect_ratio_to_width_height_default(ar) ==
    IF ar \in DOMAIN aspect_ratios THEN aspect_ratios[ar]
    ELSE <<1024, 1024>>

\* dict.get: None for a key the table lacks
aspect_ratio_to_width_height(ar) ==
    IF ar \in DOMAIN aspect_ratios THEN aspect_ratios[ar] ELSE NoPair

\* 'tar' if hf_lora.endswith('.tar') or 'replicate.delivery' in hf_lora else 'safetensors'
file_extension(ref) ==
    IF EndsWith(ref, S_dot_tar) \/ Contains(ref, S_replicate_delivery)
    THEN "tar" ELSE "safetensors"

\* f"/tmp/lora.{file_extension}"
lora_path(ext) == [dir |-> "/tmp", stem |-> "lora", ext |-> ext]

\* f"/tmp/out-.{output_format}": the count left out of the name
output_path_unindexed(count, fmt) ==
    [dir |-> "/tmp", stem |-> "out-", index |-> 0, ext |-> fmt]

\* f"/tmp/out-{i}.{output_format}": the loop index in place of the count
output_path_by_generation(count, fmt) ==
    [dir |-> "/tmp", stem |-> "out-", index |-> Len(images) - 1, ext |-> fmt]

\* f"/tmp/out-{safe_images_count}.{output_format}"
output_path(count, fmt) ==
    [dir |-> "/tmp", stem |-> "out-", index |-> count, ext |-> fmt]

\* the chain with the weight-file test moved before the huggingface.co test
LoraBranchUrlFirst(ref) ==
    IF ReMatch(ReHfPath, ref) THEN "hf_path"
    ELSE IF ReMatch(ReWeightUrl, ref) \/ ReMatch(ReDeliveryUrl, ref) THEN "weight_url"
    ELSE IF ReMatch(ReHfUrl, ref) THEN "hf_url"
    ELSE "invalid"

\* the branch of the if/elif chain over hf_lora that is taken
LoraBranch(ref) ==
    IF ReMatch(ReHfPath, ref) THEN "hf_path"
    ELSE IF ReMatch(ReHfUrl, ref) THEN "hf_url"
    ELSE IF ReMatch(ReWeightUrl, ref) \/ ReMatch(ReDeliveryUrl, ref) THEN "weight_url"
    ELSE "invalid"

\* an adapter as load_lora_weights receives it
Adapter(source, weight_name) == [source |-> source, weight_name |-> weight_name]

\* the .safetensors file found in the extracted archive
ExtractedFile == [dir |-> "tmpdir", stem |-> "lora", ext |-> "safetensors"]

\* FluxPipeline.load_lora_weights: one more adapter on the pipeline
load_lora_weights(attached, adapter) == Append(attached, adapter)

\* an unload that leaves the adapters in place
unload_lora_weights_noop(attached) == attached

\* FluxPipeline.unload_lora_weights: no adapter left on the pipeline
unload_lora_weights(attached) == <<>>

\* torch.Generator("cuda").manual_seed(seed)
manual_seed(s) == [seed |-> s, draws |-> 0]

\* a generator seeded anew for every image
advance_reseeded(g) == manual_seed(g.seed)

\* the generator after the pipeline has drawn the noise of one image from it
advance(g) == [g EXCEPT !.draws = @ + 1]

\* pipe(...).images[0]: a function of the keyword arguments, the generator
\* state and the adapters attached to the pipeline
pipe(kwargs, g, attached) ==
    [width |-> kwargs.width, height |-> kwargs.height,
     scale |-> kwargs.joint_attention_kwargs,
     seed |-> g.seed, draw |-> g.draws, adapters |-> attached]

\* a final raise as soon as one image was filtered
all_filtered_any(count) == count < num_outputs

\* the condition of the final raise
all_filtered(count) == count = 0

Init ==
    /\ adapters = <<>>
    /\ served = 0
    /\ pc = "idle"
    /\ aspect_ratio = None /\ num_outputs = 0 /\ output_format = None
    /\ hf_lora = NoText /\ lora_scale = 0 /\ disable_safety_checker = FALSE
    /\ seed_arg = NoSeed /\ seed = 0
    /\ flux_kwargs = NoKwargs
    /\ generator = manual_seed(0)
    /\ image = None
    /\ images = <<>> /\ nsfw = <<>> /\ safe_images_count = 0
    /\ saved = <<>> /\ yielded = <<>> /\ downloads = <<>>
    /\ entry_adapters = <<>>
    /\ outcome = None

\* the request is over: predict raised, returned, or was closed
Raise(e) ==
    /\ pc' = "ended"
    /\ outcome' = e

(***************************************************************************)
(* predict, lines 131-143: seed, width and height                          *)
(***************************************************************************)
Predict(ar, n, sd, fmt, lora, scale, dsc) ==
    /\ pc = "idle"
    /\ served < MaxRequests
    /\ served' = served + 1
    /\ aspect_ratio' = ar /\ num_outputs' = n /\ output_format' = fmt
    /\ hf_lora' = lora /\ lora_scale' = scale /\ disable_safety_checker' = dsc
    /\ seed_arg' = sd
    /\ IF sd = NoSeed THEN seed' \in UrandomSeeds ELSE seed' = sd
    /\ entry_adapters' = adapters
    /\ LET wh == aspect_ratio_to_width_height(ar)
       IN  IF wh = NoPair
           THEN \* unpacking None raises TypeError
                /\ flux_kwargs' = NoKwargs
                /\ Raise("TypeError")
           ELSE /\ flux_kwargs' = [width |-> wh[1], height |-> wh[2],
                                   joint_attention_kwargs |-> <<>>]
                /\ pc' = "lora"
                /\ outcome' = None
    /\ UNCHANGED <<adapters, loopvars, downloads>>

(***************************************************************************)
(* predict, lines 145-186: the adapter and the generator                   *)
(***************************************************************************)
\* the common tail of every branch that reaches line 186
SeedGenerator ==
    /\ generator' = manual_seed(seed)
    /\ pc' = "loop"
    /\ UNCHANGED outcome

\* joint_attention_kwargs: <<>> for None, <<s>> for {"scale": s}
WithScale == [flux_kwargs EXCEPT !.joint_attention_kwargs = <<lora_scale>>]

\* line 148-150: a HuggingFace path
LoadHfPath ==
    /\ pc = "lora" /\ hf_lora # NoText
    /\ LoraBranch(hf_lora) = "hf_path"
    /\ flux_kwargs' = WithScale
    /\ adapters' = load_lora_weights(adapters, Adapter(hf_lora, NoText))
    /\ SeedGenerator
    /\ UNCHANGED <<served, reqvars, image, images, nsfw, safe_images_count,
                   saved, yielded, downloads, entry_adapters>>

\* line 151-157: a huggingface.co URL
LoadHfUrl ==
    /\ pc = "lora" /\ hf_lora # NoText
    /\ LoraBranch(hf_lora) = "hf_url"
    /\ flux_kwargs' = WithScale
    /\ LET huggingface_slug == HfSlugOf(hf_lora)
           weight_name == LastSegment(hf_lora)
       IN  IF huggingface_slug = NoText
           THEN \* re.search returned None: .group raises AttributeError
                /\ Raise("AttributeError")
                /\ UNCHANGED <<adapters, generator>>
           ELSE /\ adapters' = load_lora_weights(adapters,
                                                 Adapter(huggingface_slug, weight_name))
                /\ SeedGenerator
    /\ UNCHANGED <<served, reqvars, image, images, nsfw, safe_images_count,
                   saved, yielded, downloads, entry_adapters>>

\* line 158-179: a URL of a .safetensors file or of a tar archive
LoadWeightUrl ==
    /\ pc = "lora" /\ hf_lora # NoText
    /\ LoraBranch(hf_lora) = "weight_url"
    /\ flux_kwargs' = WithScale
    /\ LET ext == file_extension(hf_lora)
           dest == lora_path(ext)
       IN  /\ downloads' = Append(downloads, [url |-> hf_lora, dest |-> dest, file |-> TRUE])
           /\ \/ \* pget exits non-zero
                 /\ Raise("CalledProcessError")
                 /\ UNCHANGED <<adapters, generator>>
              \/ \* the download is not a readable archive
                 /\ ext = "tar"
                 /\ Raise("TarError")
                 /\ UNCHANGED <<adapters, generator>>
              \/ \* the archive holds no .safetensors file
                 /\ ext = "tar"
                 /\ Raise("NoSafetensors")
                 /\ UNCHANGED <<adapters, generator>>
              \/ /\ ext = "tar"
                 /\ adapters' = load_lora_weights(adapters, Adapter(ExtractedFile, NoText))
                 /\ SeedGenerator
              \/ /\ ext = "safetensors"
                 /\ adapters' = load_lora_weights(adapters, Adapter(dest, NoText))
                 /\ SeedGenerator
    /\ UNCHANGED <<served, reqvars, image, images, nsfw, safe_images_count,
                   saved, yielded, entry_adapters>>

\* line 180-181: no pattern matches
RejectLora ==
    /\ pc = "lora" /\ hf_lora # NoText
    /\ LoraBranch(hf_lora) = "invalid"
    /\ flux_kwargs' = WithScale
    /\ Raise("InvalidLora")
    /\ UNCHANGED <<adapters, served, reqvars, loopvars, downloads, entry_adapters>>

\* line 182-184: no reference
NoLora ==
    /\ pc = "lora" /\ hf_lora = NoText
    /\ flux_kwargs' = [flux_kwargs EXCEPT !.joint_attention_kwargs = <<>>]
    /\ adapters' = unload_lora_weights(adapters)
    /\ SeedGenerator
    /\ UNCHANGED <<served, reqvars, image, images, nsfw, safe_images_count,
                   saved, yielded, downloads, entry_adapters>>

(***************************************************************************)
(* predict, lines 188-215: the loop over image_generator()                 *)
(***************************************************************************)
\* line 189-198: the next image is asked of the pipeline
Generate ==
    /\ pc = "loop"
    /\ Len(images) < num_outputs
    /\ LET img == pipe(flux_kwargs, generator, adapters)
       IN  /\ image' = img
           /\ images' = Append(images, img)
    /\ generator' = advance(generator)
    /\ pc' = "check"
    /\ UNCHANGED <<adapters, served, reqvars, flux_kwargs, nsfw, safe_images_count,
                   saved, yielded, downloads, entry_adapters, outcome>>

\* the pipeline raises instead
GenerateRaises ==
    /\ pc = "loop"
    /\ Len(images) < num_outputs
    /\ Raise("PipelineError")
    /\ UNCHANGED <<adapters, served, reqvars, flux_kwargs, loopvars, downloads,
                   entry_adapters>>

\* range(num_outputs) is exhausted
LoopExit ==
    /\ pc = "loop"
    /\ Len(images) >= num_outputs
    /\ pc' = "after"
    /\ UNCHANGED <<adapters, served, reqvars, flux_kwargs, loopvars, downloads,
                   entry_adapters, outcome>>

\* line 202-206: the safety checker, unless disabled
SafetyCheck ==
    /\ pc = "check"
    /\ IF disable_safety_checker
       THEN /\ nsfw' = Append(nsfw, FALSE)
            /\ pc' = "save"
       ELSE \E has_nsfw_content \in BOOLEAN :
               /\ nsfw' = Append(nsfw, has_nsfw_content)
               /\ pc' = IF has_nsfw_content THEN "loop" ELSE "save"
    /\ UNCHANGED <<adapters, served, reqvars, flux_kwargs, generator, image, images,
                   safe_images_count, saved, yielded, downloads, entry_adapters,
                   outcome>>

\* the safety checker raises
SafetyCheckRaises ==
    /\ pc = "check"
    /\ ~disable_safety_checker
    /\ Raise("SafetyCheckerError")
    /\ UNCHANGED <<adapters, served, reqvars, flux_kwargs, loopvars, downloads,
                   entry_adapters>>

\* line 208-215: the image is saved and its path yielded
SaveAndYield ==
    /\ pc = "save"
    /\ LET path == output_path(safe_images_count, output_format)
       IN  /\ saved' = Append(saved, [path |-> path, image |-> image])
           /\ yielded' = Append(yielded, path)
    /\ safe_images_count' = safe_images_count + 1
    /\ pc' = "yield"
    /\ UNCHANGED <<adapters, served, reqvars, flux_kwargs, generator, image, images,
                   nsfw, downloads, entry_adapters, outcome>>

\* the caller asks for the next path
Resume ==
    /\ pc = "yield"
    /\ pc' = "loop"
    /\ UNCHANGED <<adapters, served, reqvars, flux_kwargs, loopvars, downloads,
                   entry_adapters, outcome>>

\* the caller stops consuming: the generator is closed at the yield
Close ==
    /\ pc = "yield"
    /\ Raise("GeneratorExit")
    /\ UNCHANGED <<adapters, served, reqvars, flux_kwargs, loopvars, downloads,
                   entry_adapters>>

(***************************************************************************)
(* predict, lines 217-222: after the loop                                  *)
(***************************************************************************)
Finish ==
    /\ pc = "after"
    /\ adapters' = IF hf_lora # NoText THEN unload_lora_weights(adapters) ELSE adapters
    /\ Raise(IF all_filtered(safe_images_count) THEN "AllFiltered" ELSE "Returned")
    /\ UNCHANGED <<served, reqvars, flux_kwargs, loopvars, downloads, entry_adapters>>

\* the request is over and its frame is discarded; the Predictor and its
\* pipeline stay, ready for the next request
Return ==
    /\ pc = "ended"
    /\ pc' = "idle"
    /\ aspect_ratio' = None /\ num_outputs' = 0 /\ output_format' = None
    /\ hf_lora' = NoText /\ lora_scale' = 0 /\ disable_safety_checker' = FALSE
    /\ seed_arg' = NoSeed /\ seed' = 0
    /\ flux_kwargs' = NoKwargs
    /\ generator' = manual_seed(0)
    /\ image' = None
    /\ images' = <<>> /\ nsfw' = <<>> /\ safe_images_count' = 0
    /\ saved' = <<>> /\ yielded' = <<>> /\ downloads' = <<>>
    /\ entry_adapters' = <<>>
    /\ outcome' = None
    /\ UNCHANGED <<adapters, served>>

Next ==
    \/ \E r \in Requests :
            Predict(r.aspect_ratio, r.num_outputs, r.seed, r.output_format,
                    r.hf_lora, r.lora_scale, r.disable_safety_checker)
    \/ Return
    \/ LoadHfPath
    \/ LoadHfUrl
    \/ LoadWeightUrl
    \/ RejectLora
    \/ NoLora
    \/ Generate
    \/ GenerateRaises
    \/ LoopExit
    \/ SafetyCheck
    \/ SafetyCheckRaises
    \/ SaveAndYield
    \/ Resume
    \/ Close
    \/ Finish

Spec == Init /\ [][Next]_vars

(***************************************************************************)
(* Properties                                                              *)
(***************************************************************************)
\* the request went past the adapter resolution with a reference, so it
\* attached an adapter, and it is over
EndedAfterAttach ==
    /\ pc = "ended"
    /\ hf_lora # NoText
    /\ outcome \in {"Returned", "AllFiltered", "PipelineError", "SafetyCheckerError",
                    "GeneratorExit"}

\* the generator ran to its end: every image was asked for and line 217 reached
ConsumedToEnd ==
    \/ pc = "after"
    \/ pc = "ended" /\ outcome \in {"Returned", "AllFiltered"}

\* the number of images among the first j that were not flagged
Accepted(j) == Cardinality({k \in 1..j : ~nsfw[k]})

\* C1: in every reachable state, over any sequence of requests and whatever
\* way each of them ended, the pipeline has at most one adapter attached.
AtMostOneAdapter == Len(adapters) <= 1

\* C2: a request that attached an adapter leaves the pipeline without any
\* adapter when it ends, on every exit path, so that the next request begins
\* on the unmodified pipeline.
DetachedOnEveryExit ==
    /\ EndedAfterAttach => adapters = <<>>
    /\ pc = "idle" => adapters = <<>>

\* C3: with the safety checker disabled, a request consumed to the end has
\* yielded exactly num_outputs paths, the k-th of them (from 0) being
\* /tmp/out-k.<output_format>, all distinct, and it does not end in the
\* all-filtered error.
UnfilteredYieldsAll ==
    (disable_safety_checker /\ ConsumedToEnd) =>
        /\ Len(yielded) = num_outputs
        /\ \A k \in 1..Len(yielded) :
              yielded[k] = [dir |-> "/tmp", stem |-> "out-", index |-> k - 1,
                            ext |-> output_format]
        /\ \A j, k \in 1..Len(yielded) : j # k => yielded[j] # yielded[k]
        /\ outcome # "AllFiltered"

UnfilteredYieldsAllWitness ==
    /\ pc = "ended" /\ outcome = "Returned"
    /\ disable_safety_checker
    /\ num_outputs = MaxOutputs
    /\ Len(yielded) = MaxOutputs

\* C4: with the safety checker enabled, at every step of a request at most
\* num_outputs paths have been yielded, no flagged image has been saved or
\* yielded, and the files saved are exactly out-0 .. out-(a-1), a being the
\* number of images accepted and saved so far: the names follow the count of
\* accepted images, not the index of generation.
FilteredNamesHaveNoGaps ==
    ~disable_safety_checker =>
        /\ Len(yielded) <= num_outputs
        /\ Len(saved) = safe_images_count
        /\ safe_images_count = Accepted(Len(nsfw)) - (IF pc = "save" THEN 1 ELSE 0)
        /\ \A k \in 1..Len(saved) :
              /\ saved[k].path = [dir |-> "/tmp", stem |-> "out-", index |-> k - 1,
                                  ext |-> output_format]
              /\ \E j \in 1..Len(nsfw) : ~nsfw[j] /\ images[j] = saved[k].image
              /\ \A j \in 1..Len(nsfw) : nsfw[j] => images[j] # saved[k].image
        /\ yielded = [k \in 1..Len(saved) |-> saved[k].path]

FilteredNamesHaveNoGapsWitness ==
    /\ pc = "ended" /\ outcome = "Returned"
    /\ ~disable_safety_checker
    /\ nsfw = <<TRUE, FALSE, TRUE, FALSE>>
    /\ Len(saved) = 2

\* C5: a request ends with the all-filtered error exactly when each of its
\* num_outputs images was generated and flagged; then nothing was saved and
\* nothing yielded.
AllFilteredIffAllFlagged ==
    pc = "ended" =>
        /\ outcome = "AllFiltered" <=>
              (Len(nsfw) = num_outputs /\ \A k \in 1..Len(nsfw) : nsfw[k])
        /\ outcome = "AllFiltered" =>
              /\ Len(images) = num_outputs
              /\ saved = <<>>
              /\ yielded = <<>>

AllFilteredIffAllFlaggedWitness ==
    /\ pc = "ended" /\ outcome = "AllFiltered"
    /\ num_outputs = MaxOutputs
    /\ nsfw = <<TRUE, TRUE, TRUE, TRUE>>

\* C6: the resolver takes the first matching rule in the order registry slug,
\* hosting URL, weight-file URL.  An owner/name reference is loaded by its
\* slug without a download; a huggingface.co URL that also ends in
\* .safetensors is loaded from the hub, not downloaded; a reference that
\* matches no rule ends the request with the validation error before any
\* download, attach or pipeline call.
ResolvedReference == pc \notin {"idle", "lora"} /\ outcome # "TypeError"

ResolverDispatch ==
    /\ (ResolvedReference /\ hf_lora = RefSlug) =>
          /\ downloads = <<>>
          /\ pc # "ended" => adapters = Append(entry_adapters, Adapter(RefSlug, NoText))
          /\ outcome \notin {"InvalidLora", "AttributeError"}
    /\ (ResolvedReference /\ hf_lora = RefHub) =>
          /\ downloads = <<>>
          /\ pc # "ended" =>
                adapters = Append(entry_adapters,
                                  Adapter(<<"a","b","/","c","d">>,
                                          <<"x",".","s","a","f","e","t","e","n","s","o","r","s">>))
    /\ (ResolvedReference /\ hf_lora \in {RefFile, RefTar, RefDelivery, RefDeliveryGz}) =>
          /\ Len(downloads) = 1
          /\ downloads[1].url = hf_lora
    /\ (ResolvedReference /\ hf_lora \in {RefFtp, RefDeep, RefBin}) =>
          /\ pc = "ended" /\ outcome = "InvalidLora"
          /\ downloads = <<>>
          /\ adapters = entry_adapters
          /\ images = <<>>

ResolverDispatchWitness ==
    /\ pc = "ended" /\ outcome = "InvalidLora"
    /\ hf_lora = RefDeep
    /\ served = 2

\* C7: a full request with an explicit seed produces the images the same
\* request produces on a pipeline that had nothing attached when the request
\* began (as the first request of a Predictor does), whatever requests were
\* served before it; so two such requests with the same parameters produce
\* the same images.
OwnAdapters(img) ==
    IF hf_lora = NoText THEN <<>> ELSE <<img.adapters[Len(img.adapters)]>>

FreshImage(k) ==
    pipe(flux_kwargs, [seed |-> seed_arg, draws |-> k - 1], OwnAdapters(images[k]))

SameSeedSameImages ==
    (pc = "ended" /\ outcome \in {"Returned", "AllFiltered"} /\ seed_arg # NoSeed) =>
        \A k \in 1..Len(images) : images[k] = FreshImage(k)

\* the table of the specification
TableEntry(ar) ==
    CASE ar = "1:1" -> <<1024, 1024>>
      [] ar = "16:9" -> <<1344, 768>>
      [] ar = "21:9" -> <<1536, 640>>
      [] ar = "3:2" -> <<1216, 832>>
      [] ar = "2:3" -> <<832, 1216>>
      [] ar = "4:5" -> <<896, 1088>>
      [] ar = "5:4" -> <<1088, 896>>
      [] ar = "9:16" -> <<768, 1344>>
      [] ar = "9:21" -> <<640, 1536>>

\* C8: for each of the nine aspect ratios every pipeline call of the request
\* got the width and height of the table; a request with another aspect ratio
\* is over, with an error, before an adapter is loaded or downloaded and
\* before the pipeline is called.
AspectRatioResolved ==
    pc # "idle" =>
        IF aspect_ratio \in {"1:1", "16:9", "21:9", "3:2", "2:3", "4:5", "5:4", "9:16", "9:21"}
        THEN /\ outcome # "TypeError"
             /\ <<flux_kwargs.width, flux_kwargs.height>> = TableEntry(aspect_ratio)
             /\ \A k \in 1..Len(images) :
                   <<images[k].width, images[k].height>> = TableEntry(aspect_ratio)
        ELSE /\ pc = "ended" /\ outcome = "TypeError"
             /\ adapters = entry_adapters
             /\ downloads = <<>>
             /\ images = <<>>

AspectRatioResolvedWitness ==
    /\ aspect_ratio = "4:3"
    /\ hf_lora = RefSlug
    /\ pc = "ended"

\* C9: a request without an adapter reference calls the pipeline with no
\* adapter attached, whatever earlier requests left attached: from the
\* resolution on the pipeline has no adapter, and every image of the request
\* was generated with none.
NoReferenceRunsBare ==
    (hf_lora = NoText /\ pc \notin {"idle", "lora"} /\ outcome # "TypeError") =>
        /\ adapters = <<>>
        /\ \A k \in 1..Len(images) : images[k].adapters = <<>>

NoReferenceRunsBareWitness ==
    /\ hf_lora = NoText
    /\ entry_adapters # <<>>
    /\ Len(images) >= 1

\* C10: images are produced one at a time and in order: the pipeline is
\* called for the next image only when the decision on the one before is
\* taken and, if that one was accepted, it is saved and yielded; there are at
\* most num_outputs calls, all drawing in sequence from the one generator
\* seeded with the request's seed, so no image is generated twice.
LazyInOrder ==
    /\ Len(images) <= num_outputs
    /\ Len(nsfw) <= Len(images) /\ Len(images) <= Len(nsfw) + 1
    /\ Len(images) >= 1 =>
          /\ Len(yielded) >= Accepted(Len(images) - 1)
          /\ Len(saved) >= Accepted(Len(images) - 1)
    /\ \A k \in 1..Len(images) :
          /\ images[k].seed = seed
          /\ images[k].draw = k - 1

LazyInOrderWitness ==
    /\ num_outputs = 3
    /\ Len(images) = 3
    /\ nsfw = <<FALSE, TRUE>>
    /\ Len(yielded) = 1

====
